---- MODULE Spec2Model ----
(***************************************************************************)
(* Control flow of image/mae/main_pretrain.py: the MAE pre-training loop.  *)
(*                                                                         *)
(* One process runs main(): it builds the engine and the loss scaler,      *)
(* optionally resumes from a checkpoint, then iterates epochs and batches  *)
(* with gradient accumulation, a divergence check and periodic             *)
(* checkpoints.  The process can be launched again on the same output      *)
(* directory, resuming from a checkpoint an earlier launch wrote.          *)
(*                                                                         *)
(* Tensors are abstracted: a batch's gradient is the pair <<epoch, i>>,    *)
(* the gradient buffers are the set of pairs summed into them, the model   *)
(* weights and the optimizer/scaler states count the updates applied.      *)
(* Configurations are the ones main() runs without raising: ACCUM_ITER     *)
(* and CHECKPOINT_INTERVAL are at least 1 and a resume address names an    *)
(* existing checkpoint file.                                               *)
(***************************************************************************)
EXTENDS Integers, Sequences, FiniteSets, TLC

\* ---- bounds of the model ----
MaxEpochs == 3
MaxLen == 4
MaxAccum == 3
MaxInterval == 2
MaxLaunches == 2

VARIABLES
    \* environment: configuration, data loader, output directory
    config,          \* gpc.config
    loaderLen,       \* len(train_dataloader)
    files,           \* OUTPUT_DIR: checkpoint path -> record
    launches,        \* number of times the script has been started
    \* the running process
    pc,              \* position in main()
    start_epoch,
    epoch,
    data_iter_step,
    loss_value,
    exit_status,     \* Running until the process ends
    engine,          \* [model, optimizer, grad]
    loss_scaler,
    \* observations of the run (history variables)
    epochsRun,       \* epochs whose body was entered, in order
    adjusted,        \* this epoch: <<i, position>> of every adjust_learning_rate call
    stepped,         \* this epoch: batch indices at which the optimizer stepped
    zeroed,          \* this epoch: batch indices followed by the in-loop zero_grad
    applied,         \* this launch: gradients consumed by some optimizer step
    lastStep,        \* gradients the most recent optimizer step applied
    dropped,         \* this launch: gradients cleared by zero_grad without being applied
    written,         \* this launch: epochs whose checkpoint was written
    resumeCalled,    \* this launch: resume_model was called
    atSave           \* path -> live optimizer/scaler state when the file was written

envVars == <<config, loaderLen, files, launches>>
procVars == <<pc, start_epoch, epoch, data_iter_step, loss_value, exit_status,
              engine, loss_scaler>>
obsVars == <<epochsRun, adjusted, stepped, zeroed, applied, lastStep, dropped,
             written, resumeCalled, atSave>>
vars == <<envVars, procVars, obsVars>>

\* ---- values ----
Loss == {"finite", "nan", "inf", "-inf"}
NoLoss == "none"
NoAddress == <<>>
BaseLr == <<-1, 1>>     \* the rate the optimizer is constructed with (LEARNING_RATE)

\* variant: a comparison against infinity, which NaN passes
isfiniteNanPasses(l) == l \notin {"inf", "-inf"}

\* math.isfinite (line 151)
isfinite(l) == l \notin {"nan", "inf", "-inf"}

\* ---- collaborators ----

\* init_engine: a fresh model and AdamW optimizer
init_engine == [model |-> 0, optimizer |-> [step |-> 0, lr |-> BaseLr], grad |-> {}]

\* NativeScaler(): a fresh scaler
NativeScaler == [updates |-> 0]

\* engine.zero_grad(): clears the gradient buffers
zero_grad(eng) == [eng EXCEPT !.grad = {}]

\* lr_sched.adjust_learning_rate(optimizer, position, args): sets every param
\* group's rate to a function of the position; the rate is represented by the
\* position it was computed from.
lr_sched_adjust(eng, position) == [eng EXCEPT !.optimizer.lr = position]

\* loss_scaler(loss, optimizer, parameters, update_grad): backward pass, then
\* optimizer step and scaler update when update_grad holds.
backward(eng, g) == [eng EXCEPT !.grad = eng.grad \cup {g}]

scaler_step(eng) ==
    [eng EXCEPT !.model = eng.model + 1, !.optimizer.step = eng.optimizer.step + 1]

scaler_update(sc) == [sc EXCEPT !.updates = sc.updates + 1]

\* ---- main_pretrain.py ----

\* line 145: data_iter_step / len(train_dataloader) + epoch, as a fraction
LrPosition(i, len, ep) == <<i + ep * len, len>>

\* variant: the rate is adjusted at every batch
ShouldAdjustLrEveryBatch(i, cfg) == TRUE

\* line 201
ShouldAdjustLr(i, cfg) == i % cfg.ACCUM_ITER = 0

\* variants: the step fires on the first batch of a window; on every batch
UpdateGradOffByOne(i, cfg) == i % cfg.ACCUM_ITER = 0
UpdateGradEveryBatch(i, cfg) == TRUE

\* line 162
UpdateGrad(i, cfg) == (i + 1) % cfg.ACCUM_ITER = 0

\* variant: the in-loop zero_grad is missing
ShouldZeroGradNever(i, cfg) == FALSE

\* line 210
ShouldZeroGrad(i, cfg) == (i + 1) % cfg.ACCUM_ITER = 0

\* variant: an inclusive upper bound
HasEpochInclusive(ep, cfg) == ep <= cfg.NUM_EPOCHS

\* line 194: range(start_epoch, NUM_EPOCHS) has another epoch
HasEpoch(ep, cfg) == ep < cfg.NUM_EPOCHS

\* variant: a stride of two
NextEpochSkip(ep) == ep + 2

\* line 194: the epoch range(start_epoch, NUM_EPOCHS) yields after ep
NextEpoch(ep) == ep + 1

\* line 197: the loader has another batch
HasBatch(i, len) == i < len

\* variant: the final epoch is not forced
ShouldSaveNoFinal(ep, cfg) == cfg.OUTPUT_DIR /\ ep % cfg.CHECKPOINT_INTERVAL = 0

\* lines 213-215
ShouldSave(ep, cfg) ==
    cfg.OUTPUT_DIR /\ (ep % cfg.CHECKPOINT_INTERVAL = 0 \/ ep + 1 = cfg.NUM_EPOCHS)

\* line 167: output_dir / "checkpoint-<epoch>.pth"
checkpoint_path(ep) == <<"checkpoint", ep>>

\* variant: the scaler state is not the live one
save_modelFreshScaler(model, ep, cfg, optimizer, scaler) ==
    [model |-> model, optimizer |-> optimizer, epoch |-> ep, scaler |-> NativeScaler,
     config |-> cfg]

\* lines 168-177: the record torch.save writes
save_model(model, ep, cfg, optimizer, scaler) ==
    [model |-> model, optimizer |-> optimizer, epoch |-> ep, scaler |-> scaler,
     config |-> cfg]

\* load_model_args(resume, start_epoch)
load_model_args(resume, se) == [resume |-> resume, start_epoch |-> se]

\* misc.load_model: loads weights, optimizer and scaler state into the live objects
load_model(args, eng, dir) ==
    LET ckpt == dir[args.resume]
    IN  [engine |-> [eng EXCEPT !.model = ckpt.model, !.optimizer = ckpt.optimizer],
         loss_scaler |-> ckpt.scaler]

\* lines 117-133
resume_model(eng, cfg, dir) ==
    LET args == load_model_args(cfg.RESUME_ADDRESS, cfg.RESUME_START_EPOCH)
        loaded == load_model(args, eng, dir)
    IN  [engine |-> loaded.engine, loss_scaler |-> loaded.loss_scaler,
         start_epoch |-> args.start_epoch]

\* line 153: sys.exit(1); a normal return of main ends the script with status 0
ExitDivergence == 1
ExitNormal == 0
Running == <<>>          \* no exit status yet
Exited(code) == <<code>>

\* ---- configurations ----
Configs ==
    [NUM_EPOCHS : 0..MaxEpochs,
     ACCUM_ITER : 1..MaxAccum,
     CHECKPOINT_INTERVAL : 1..MaxInterval,
     OUTPUT_DIR : BOOLEAN,
     RESUME : {FALSE},
     RESUME_ADDRESS : {NoAddress},
     RESUME_START_EPOCH : {0}]

Fresh ==
    /\ pc = "main"
    /\ start_epoch = 0
    /\ epoch = 0
    /\ data_iter_step = 0
    /\ loss_value = NoLoss
    /\ exit_status = Running
    /\ engine = init_engine
    /\ loss_scaler = NativeScaler
    /\ epochsRun = <<>>
    /\ adjusted = {}
    /\ stepped = {}
    /\ zeroed = {}
    /\ applied = {}
    /\ lastStep = {}
    /\ dropped = {}
    /\ written = {}
    /\ resumeCalled = FALSE

Init ==
    /\ config \in Configs
    /\ loaderLen \in 0..MaxLen
    /\ files = <<>>
    /\ atSave = <<>>
    /\ launches = 1
    /\ Fresh

\* lines 181-192: set-up and optional resume
main_init ==
    /\ pc = "main"
    /\ IF config.RESUME
       THEN LET r == resume_model(init_engine, config, files)
            IN  /\ engine' = r.engine
                /\ loss_scaler' = r.loss_scaler
                /\ start_epoch' = r.start_epoch
                /\ epoch' = r.start_epoch
                /\ resumeCalled' = TRUE
       ELSE /\ engine' = init_engine
            /\ loss_scaler' = NativeScaler
            /\ start_epoch' = 0
            /\ epoch' = 0
            /\ resumeCalled' = FALSE
    /\ pc' = "epoch"
    /\ UNCHANGED <<envVars, data_iter_step, loss_value, exit_status>>
    /\ UNCHANGED <<epochsRun, adjusted, stepped, zeroed, applied, lastStep, dropped,
                   written, atSave>>

\* lines 194-196 and 225-228: head of the epoch loop
epoch_head ==
    /\ pc = "epoch"
    /\ IF HasEpoch(epoch, config)
       THEN /\ engine' = zero_grad(engine)
            /\ dropped' = dropped \cup (engine.grad \ applied)
            /\ data_iter_step' = 0
            /\ epochsRun' = Append(epochsRun, epoch)
            /\ adjusted' = {}
            /\ stepped' = {}
            /\ zeroed' = {}
            /\ pc' = "batch"
            /\ UNCHANGED exit_status
       ELSE /\ pc' = "done"
            /\ exit_status' = Exited(ExitNormal)
            /\ UNCHANGED <<engine, dropped, data_iter_step, epochsRun, adjusted,
                           stepped, zeroed>>
    /\ UNCHANGED <<envVars, start_epoch, epoch, loss_value, loss_scaler>>
    /\ UNCHANGED <<applied, lastStep, written, resumeCalled, atSave>>

\* lines 197-204: head of the batch loop and the learning-rate adjustment
batch_head ==
    /\ pc = "batch"
    /\ IF HasBatch(data_iter_step, loaderLen)
       THEN /\ pc' = "forward"
            /\ IF ShouldAdjustLr(data_iter_step, config)
               THEN LET p == LrPosition(data_iter_step, loaderLen, epoch)
                    IN  /\ engine' = lr_sched_adjust(engine, p)
                        /\ adjusted' = adjusted \cup {<<data_iter_step, p>>}
               ELSE UNCHANGED <<engine, adjusted>>
       ELSE /\ pc' = "save"
            /\ UNCHANGED <<engine, adjusted>>
    /\ UNCHANGED <<envVars, start_epoch, epoch, data_iter_step, loss_value,
                   exit_status, loss_scaler>>
    /\ UNCHANGED <<epochsRun, stepped, zeroed, applied, lastStep, dropped, written,
                   resumeCalled, atSave>>

\* lines 205-207: forward pass, the loss is whatever the model produces
forward ==
    /\ pc = "forward"
    /\ \E l \in Loss : loss_value' = l
    /\ pc' = "check"
    /\ UNCHANGED <<envVars, start_epoch, epoch, data_iter_step, exit_status, engine,
                   loss_scaler, obsVars>>

\* lines 150-153, called at line 208
exit_if_infinite_loss ==
    /\ pc = "check"
    /\ IF ~isfinite(loss_value)
       THEN /\ pc' = "exited"
            /\ exit_status' = Exited(ExitDivergence)
       ELSE /\ pc' = "scale"
            /\ UNCHANGED exit_status
    /\ UNCHANGED <<envVars, start_epoch, epoch, data_iter_step, loss_value, engine,
                   loss_scaler, obsVars>>

\* lines 156-163, called at line 209
scale_loss ==
    /\ pc = "scale"
    /\ LET g == <<epoch, data_iter_step>>
           eng == backward(engine, g)
       IN  IF UpdateGrad(data_iter_step, config)
           THEN /\ engine' = scaler_step(eng)
                /\ loss_scaler' = scaler_update(loss_scaler)
                /\ stepped' = stepped \cup {data_iter_step}
                /\ applied' = applied \cup eng.grad
                /\ lastStep' = eng.grad
           ELSE /\ engine' = eng
                /\ UNCHANGED <<loss_scaler, stepped, applied, lastStep>>
    /\ pc' = "zero"
    /\ UNCHANGED <<envVars, start_epoch, epoch, data_iter_step, loss_value,
                   exit_status>>
    /\ UNCHANGED <<epochsRun, adjusted, zeroed, dropped, written, resumeCalled,
                   atSave>>

\* lines 210-211, then the next iteration of the batch loop
zero_grad_step ==
    /\ pc = "zero"
    /\ IF ShouldZeroGrad(data_iter_step, config)
       THEN /\ engine' = zero_grad(engine)
            /\ dropped' = dropped \cup (engine.grad \ applied)
            /\ zeroed' = zeroed \cup {data_iter_step}
       ELSE UNCHANGED <<engine, dropped, zeroed>>
    /\ data_iter_step' = data_iter_step + 1
    /\ pc' = "batch"
    /\ UNCHANGED <<envVars, start_epoch, epoch, loss_value, exit_status, loss_scaler>>
    /\ UNCHANGED <<epochsRun, adjusted, stepped, applied, lastStep, written,
                   resumeCalled, atSave>>

\* f with x mapped to v (x added to the domain when new)
Put(f, x, v) == [y \in DOMAIN f \cup {x} |-> IF y = x THEN v ELSE f[y]]

\* lines 213-223: end-of-epoch checkpoint, then the next epoch
save_step ==
    /\ pc = "save"
    /\ IF ShouldSave(epoch, config)
       THEN /\ files' = Put(files, checkpoint_path(epoch),
                            save_model(engine.model, epoch, config, engine.optimizer,
                                       loss_scaler))
            /\ atSave' = Put(atSave, checkpoint_path(epoch),
                             [optimizer |-> engine.optimizer, scaler |-> loss_scaler])
            /\ written' = written \cup {epoch}
       ELSE UNCHANGED <<files, atSave, written>>
    /\ epoch' = NextEpoch(epoch)
    /\ pc' = "epoch"
    /\ UNCHANGED <<config, loaderLen, launches>>
    /\ UNCHANGED <<start_epoch, data_iter_step, loss_value, exit_status, engine,
                   loss_scaler>>
    /\ UNCHANGED <<epochsRun, adjusted, stepped, zeroed, applied, lastStep, dropped,
                   resumeCalled>>

\* lines 231-238: the script is started again on the same output directory,
\* either from scratch or resuming from one of the checkpoints in it, with
\* RESUME_START_EPOCH set to the checkpoint's epoch or the one after it; the
\* epoch budget is kept or cut to zero (start_epoch then exceeds NUM_EPOCHS)
Relaunch ==
    /\ pc \in {"done", "exited"}
    /\ launches < MaxLaunches
    /\ launches' = launches + 1
    /\ \E n \in {config.NUM_EPOCHS, 0}, resume \in BOOLEAN :
         IF resume
         THEN \E a \in DOMAIN files :
              \E se \in {files[a].epoch, files[a].epoch + 1} :
                config' = [config EXCEPT !.NUM_EPOCHS = n, !.RESUME = TRUE,
                              !.RESUME_ADDRESS = a, !.RESUME_START_EPOCH = se]
         ELSE config' = [config EXCEPT !.NUM_EPOCHS = n, !.RESUME = FALSE,
                            !.RESUME_ADDRESS = NoAddress, !.RESUME_START_EPOCH = 0]
    /\ pc' = "main"
    /\ start_epoch' = 0
    /\ epoch' = 0
    /\ data_iter_step' = 0
    /\ loss_value' = NoLoss
    /\ exit_status' = Running
    /\ engine' = init_engine
    /\ loss_scaler' = NativeScaler
    /\ epochsRun' = <<>>
    /\ adjusted' = {}
    /\ stepped' = {}
    /\ zeroed' = {}
    /\ applied' = {}
    /\ lastStep' = {}
    /\ dropped' = {}
    /\ written' = {}
    /\ resumeCalled' = FALSE
    /\ UNCHANGED <<loaderLen, files, atSave>>

Step ==
    \/ main_init
    \/ epoch_head
    \/ batch_head
    \/ forward
    \/ exit_if_infinite_loss
    \/ scale_loss
    \/ zero_grad_step
    \/ save_step

Next == Step \/ Relaunch

Spec == Init /\ [][Next]_vars

\* main() is sequential code and every call in it returns: a running process
\* always takes its next step.
FairSpec == Spec /\ WF_vars(Step)

\* ---- properties ----

NonFinite == {"nan", "inf", "-inf"}
InEpoch == pc \in {"batch", "forward", "check", "scale", "zero", "save", "exited"}
InBatch == pc \in {"forward", "check", "scale", "zero"}
K == config.ACCUM_ITER
\* batches of the current epoch that have been through scale_loss
Scaled == IF pc = "zero" THEN data_iter_step + 1 ELSE data_iter_step
\* batch indices below m that close an accumulation window
Closing(m) == {i \in 0..(m - 1) : (i + 1) % K = 0}
\* the accumulation window that batch i of epoch ep closes
Window(ep, i) == {<<ep, j>> : j \in (i - K + 1)..i}
\* indices of the batches after the last complete window of an epoch
TrailIdx == (loaderLen - (loaderLen % K))..(loaderLen - 1)
Max0(x) == IF x > 0 THEN x ELSE 0

\* C1: within an epoch the optimizer has stepped exactly at the batch indices i
\* with (i+1) mod ACCUM_ITER = 0 among the batches scaled so far, and the in-loop
\* zero_grad has followed exactly those steps; no intermediate batch steps or
\* zeroes.
AccumulationGating ==
    InEpoch =>
        /\ stepped = Closing(Scaled)
        /\ zeroed = Closing(data_iter_step)

AccumulationGatingWitness ==
    /\ pc = "batch"
    /\ K = 2
    /\ data_iter_step = 3
    /\ stepped = {1}
    /\ zeroed = {1}

\* C2: a non-finite loss at the divergence check ends the process with status 1
\* and changes nothing else; an exited process takes no further step; at exit the
\* diverging batch has had no backward pass, step or zero_grad and its epoch has
\* no checkpoint from this run.
DivergenceFatalExit ==
    /\ [][(pc = "check" /\ loss_value \in NonFinite) =>
            /\ pc' = "exited"
            /\ exit_status' = Exited(1)
            /\ UNCHANGED <<envVars, engine, loss_scaler, epoch, data_iter_step,
                           obsVars>>]_vars
    /\ [][pc = "exited" => (launches' # launches \/ UNCHANGED vars)]_vars
    /\ [](pc = "exited" =>
            /\ exit_status = Exited(1)
            /\ loss_value \in NonFinite
            /\ <<epoch, data_iter_step>> \notin engine.grad \cup applied
            /\ data_iter_step \notin stepped \cup zeroed
            /\ epoch \notin written
            /\ epochsRun[Len(epochsRun)] = epoch)

DivergenceFatalExitWitness ==
    /\ pc = "exited"
    /\ loss_value = "nan"
    /\ epoch = 1
    /\ data_iter_step = 1
    /\ exit_status = Exited(1)

\* C3 as stated: after a run that completes normally the checkpoint files are
\* exactly those of the epochs with epoch mod c = 0 plus the final epoch n - 1.
CheckpointCadenceAsStated ==
    pc = "done" =>
        DOMAIN files =
            {<<"checkpoint", e>> : e \in {x \in 0..(config.NUM_EPOCHS - 1) :
                 x % config.CHECKPOINT_INTERVAL = 0 \/ x = config.NUM_EPOCHS - 1}}

\* C3 amended: a run that completes normally has written, when an output
\* directory is configured, exactly the checkpoints of the epochs e it ran
\* (start_epoch <= e < n) with e mod c = 0 or e = n - 1, each holding its epoch,
\* and none when no output directory is configured.
CheckpointCadence ==
    pc = "done" =>
        /\ written = IF config.OUTPUT_DIR
                     THEN {e \in start_epoch..(config.NUM_EPOCHS - 1) :
                             e % config.CHECKPOINT_INTERVAL = 0
                             \/ e = config.NUM_EPOCHS - 1}
                     ELSE {}
        /\ \A e \in written :
             /\ <<"checkpoint", e>> \in DOMAIN files
             /\ files[<<"checkpoint", e>>].epoch = e

CheckpointCadenceWitness ==
    /\ pc = "done"
    /\ config.OUTPUT_DIR
    /\ config.CHECKPOINT_INTERVAL = 2
    /\ start_epoch = 0
    /\ written = {0, 1}

\* C4 as stated: zero_grad is never invoked while gradients of an incomplete
\* accumulation window are pending, so no gradient is ever cleared unapplied.
ZeroGradNeverMidWindow == dropped = {}

\* C5: the first epoch is start_epoch, which is 0 without calling resume_model
\* when RESUME is unset and the resumed epoch otherwise; the epochs entered are
\* start_epoch, start_epoch + 1, ... without gap or repeat, none beyond
\* NUM_EPOCHS - 1, and a completed run has entered all of them.
EpochProgression ==
    pc # "main" =>
        /\ resumeCalled = config.RESUME
        /\ start_epoch = IF config.RESUME THEN config.RESUME_START_EPOCH ELSE 0
        /\ \A j \in 1..Len(epochsRun) :
             epochsRun[j] = start_epoch + j - 1 /\ epochsRun[j] <= config.NUM_EPOCHS - 1
        /\ InEpoch => epochsRun # <<>> /\ epochsRun[Len(epochsRun)] = epoch
        /\ pc = "epoch" => epoch = start_epoch + Len(epochsRun)
        /\ pc = "done" => Len(epochsRun) = Max0(config.NUM_EPOCHS - start_epoch)

EpochProgressionWitness ==
    /\ pc = "done"
    /\ resumeCalled
    /\ start_epoch = 1
    /\ epochsRun = <<1, 2>>

LrCadence ==
    InEpoch =>
        LET hi == IF pc \in {"batch", "save"} THEN data_iter_step - 1 ELSE data_iter_step
        IN  /\ adjusted = {<<i, <<i + epoch * loaderLen, loaderLen>>>> :
                             i \in {j \in 0..hi : j % K = 0}}
            /\ InBatch =>
                 engine.optimizer.lr =
                     <<(data_iter_step - (data_iter_step % K)) + epoch * loaderLen,
                       loaderLen>>

LrCadenceWitness ==
    /\ pc = "forward"
    /\ K = 2
    /\ loaderLen = 3
    /\ epoch = 1
    /\ data_iter_step = 1
    /\ adjusted = {<<0, <<3, 3>>>>}
    /\ engine.optimizer.lr = <<3, 3>>

\* bounded by the last launch, the process of the current launch
Terminal == pc \in {"done", "exited"}

WindowComposition ==
    /\ (pc = "zero" /\ (data_iter_step + 1) % K = 0) =>
          /\ lastStep = Window(epoch, data_iter_step)
          /\ engine.grad = lastStep
          /\ Cardinality(lastStep) = K
    /\ (pc \in {"batch", "forward", "check", "scale"}) =>
          engine.grad = {<<epoch, j>> :
                           j \in (data_iter_step - (data_iter_step % K))..(data_iter_step - 1)}
    /\ lastStep # {} =>
          \E ep \in 0..config.NUM_EPOCHS, i \in 0..loaderLen : lastStep = Window(ep, i)

WindowCompositionWitness ==
    /\ pc = "zero"
    /\ K = 2
    /\ epoch = 1
    /\ data_iter_step = 3
    /\ loaderLen = 4
    /\ lastStep = {<<1, 2>>, <<1, 3>>}

\* C10: an epoch performs floor(L / k) optimizer steps; the last L mod k batches
\* have their gradients pending, unapplied, when the batch loop ends and while
\* the checkpoint is written; they are never applied, and they are cleared by
\* the zero_grad at the start of the next epoch or left pending at the end.
TrailingPartialWindow ==
    LET Trail(eps) == {<<ep, j>> : ep \in eps, j \in TrailIdx}
    IN  /\ pc = "save" =>
              /\ Cardinality(stepped) = loaderLen \div K
              /\ engine.grad = Trail({epoch})
              /\ Cardinality(engine.grad) = loaderLen % K
        /\ applied \cap Trail(0..config.NUM_EPOCHS) = {}
        /\ pc \in {"epoch", "done"} /\ epochsRun # <<>> =>
              /\ engine.grad = Trail({epoch - 1})
              /\ dropped = Trail(start_epoch..(epoch - 2))
        /\ InEpoch => dropped = Trail(start_epoch..(epoch - 1))

TrailingPartialWindowWitness ==
    /\ pc = "batch"
    /\ data_iter_step = 0
    /\ K = 2
    /\ loaderLen = 3
    /\ epoch = 1
    /\ 0 \in written
    /\ dropped = {<<0, 2>>}
    /\ engine.grad = {}
====
